---- MODULE Spec2Model ----
(***************************************************************************)
(* Model of the YT-Donations-Tracker collection pipeline.                  *)
(*                                                                         *)
(* The repository holds two versions of donation_analyzer.py:              *)
(*   "copy" : src/copy/src/donation_analyzer.py (class DonationAnalyzer)   *)
(*   "src"  : src/src/donation_analyzer.py      (module-level functions)   *)
(* The variable `variant` selects the file whose code a behaviour follows. *)
(*                                                                         *)
(* get_video_comments is modelled as a driving loop (pc) that runs         *)
(* concurrently with the worker threads of a ThreadPoolExecutor; the       *)
(* loop is cut at its blocking points (the pull of the next comment, the   *)
(* waits inside as_completed, the wait inside the executor's __exit__).    *)
(* Time is discrete: one Tick is batch_timeout seconds.                    *)
(***************************************************************************)
EXTENDS Integers, Sequences, FiniteSets, Bags, TLC

\* ------------------------------------------------------------------ bounds
\* longest comment stream the source yields
MaxStream == 3
\* configured batch_size ranges over 1..MaxBatchSize (stands for 1000)
MaxBatchSize == 2
\* configured max_workers ranges over 1..MaxWorkers
MaxWorkers == 2

\* ------------------------------------------------------- program constants
\* copy Config: 'processing_timeout': 5
processing_timeout == 5
\* copy Config: 'batch_timeout': 10
batch_timeout == 10
\* copy: as_completed(futures, timeout=30)
final_timeout == 30
\* src: ThreadPoolExecutor(max_workers=4)
SrcMaxWorkers == 4
\* len(text) > 500 is skipped as spam
SpamLen == 500
\* year band
YearLo == 1900
YearHi == 2100

\* one step of the clock, in seconds
TickLen == batch_timeout
\* running time of a batch is tracked up to this value (saturating)
ElapsedCap == batch_timeout

Min(a, b) == IF a <= b THEN a ELSE b

\* ------------------------------------------------------------------- data
\* A comment is a dict: hasText / hasAuthor say whether the key is present.
\* text.kind = "str" is a string of length text.len holding the currency
\* tokens text.toks (symbol directly attached to a number, delimited by
\* whitespace); text.kind = "other" is a value of an unexpected type (None).
Tok(sym, amt) == [sym |-> sym, amt |-> amt]

Str(len, toks) == [kind |-> "str", len |-> len, toks |-> toks]

NonStr == [kind |-> "other", len |-> 0, toks |-> <<>>]

Comment(ht, ha, text, author) ==
    [hasText |-> ht, hasAuthor |-> ha, text |-> text, author |-> author]

\* "$5" by alice, "rupee 7" by bob, a comment without author key, a comment whose
\* text is not a string
cUsd == Comment(TRUE, TRUE, Str(2, <<Tok("$", 5)>>), "alice")

cInr == Comment(TRUE, TRUE, Str(2, <<Tok("rupee", 7)>>), "bob")

cNoAuthor == Comment(TRUE, FALSE, Str(5, <<>>), "")

cBadText == Comment(TRUE, TRUE, NonStr, "carol")

\* the comments the source may yield
StreamComments == {cUsd, cInr, cNoAuthor, cBadText}

\* ------------------------------------------------------- currency rules
\* src CURRENCY_PATTERNS: (symbol, position, currency, max_amount of the rule)
Rule(sym, cur, max) == [sym |-> sym, cur |-> cur, max |-> max]

CURRENCY_PATTERNS ==
    << Rule("$", "USD", 10000), Rule("rupee", "INR", 100000),
       Rule("euro", "EUR", 10000), Rule("euro_suffix", "EUR", 10000) >>

\* src MAX_AMOUNTS.get(currency, 1000)
MAX_AMOUNTS(currency) ==
    CASE currency = "USD" -> 1000
      [] currency = "INR" -> 10000
      [] currency = "EUR" -> 1000
      [] OTHER -> 1000

\* copy Config 'currency_patterns' once a configuration supplies patterns
\* that compile: (symbol, currency, max_amount)
ConfiguredPatterns == << Rule("$", "USD", 10000), Rule("rupee", "INR", 100000) >>

is_reasonable_amount_noYearBand(amount, currency) ==
    IF amount <= 0 THEN FALSE
    ELSE amount <= MAX_AMOUNTS(currency)

\* src is_reasonable_amount
is_reasonable_amount(amount, currency) ==
    IF amount <= 0 THEN FALSE
    ELSE IF YearLo <= amount /\ amount <= YearHi THEN FALSE
    ELSE amount <= MAX_AMOUNTS(currency)

\* copy line 110: 0 < amount <= max_amount and not (1900 <= amount <= 2100)
CopyAmountOk(amount, max_amount) ==
    /\ 0 < amount
    /\ amount <= max_amount
    /\ ~(YearLo <= amount /\ amount <= YearHi)

\* a donation record (amount, currency, matched text, author)
Donation(amount, cur, sym, author) ==
    [amount |-> amount, currency |-> cur, original |-> sym, author |-> author]

\* the records one rule finds in one text, in match order (re.finditer)
RECURSIVE MatchesSrc(_, _, _)
MatchesSrc(rule, toks, author) ==
    IF toks = <<>> THEN <<>>
    ELSE LET t == Head(toks)
             hit == /\ t.sym = rule.sym
                    /\ t.amt > 0
                    /\ is_reasonable_amount(t.amt, rule.cur)
         IN (IF hit THEN <<Donation(t.amt, rule.cur, t.sym, author)>> ELSE <<>>)
              \o MatchesSrc(rule, Tail(toks), author)

RECURSIVE MatchesCopy(_, _, _)
MatchesCopy(rule, toks, author) ==
    IF toks = <<>> THEN <<>>
    ELSE LET t == Head(toks)
             hit == t.sym = rule.sym /\ CopyAmountOk(t.amt, rule.max)
         IN (IF hit THEN <<Donation(t.amt, rule.cur, t.sym, author)>> ELSE <<>>)
              \o MatchesCopy(rule, Tail(toks), author)

\* src lines 91-97: every pattern over the text of one comment
RECURSIVE RulesSrc(_, _, _)
RulesSrc(rules, toks, author) ==
    IF rules = <<>> THEN <<>>
    ELSE MatchesSrc(Head(rules), toks, author) \o RulesSrc(Tail(rules), toks, author)

RECURSIVE RulesCopy(_, _, _)
RulesCopy(rules, toks, author) ==
    IF rules = <<>> THEN <<>>
    ELSE MatchesCopy(Head(rules), toks, author) \o RulesCopy(Tail(rules), toks, author)

\* src lines 79-101: one comment; a comment that is skipped, or whose
\* processing raises (len() of a non-string), yields nothing
CommentSrc(c) ==
    IF ~c.hasText \/ ~c.hasAuthor THEN <<>>
    ELSE IF c.text.kind # "str" THEN <<>>
    ELSE IF c.text.len = 0 \/ c.text.len > SpamLen \/ c.author = "" THEN <<>>
    ELSE RulesSrc(CURRENCY_PATTERNS, c.text.toks, c.author)

\* src process_comment_batch
RECURSIVE process_comment_batch_src(_)
process_comment_batch_src(comments) ==
    IF comments = <<>> THEN <<>>
    ELSE CommentSrc(Head(comments)) \o process_comment_batch_src(Tail(comments))

\* copy lines 94-102: does processing this comment raise?  comment['text']
\* and comment['author'] raise KeyError on a missing key, .lower() raises on
\* a non-string; re.finditer raises re.error on the default patterns, whose
\* look-behind (?<=^|\s) is not fixed-width, for every comment that reaches
\* the pattern loop.
RaisesCopy(c, patterns) ==
    \/ ~c.hasText
    \/ c.text.kind # "str"
    \/ ~c.hasAuthor
    \/ (c.text.len <= SpamLen /\ patterns = "default")

\* copy lines 93-114 for a comment that does not raise
CommentCopy(c) ==
    IF c.text.len > SpamLen THEN <<>>
    ELSE RulesCopy(ConfiguredPatterns, c.text.toks, c.author)

RECURSIVE ConcatCopy(_)
ConcatCopy(comments) ==
    IF comments = <<>> THEN <<>>
    ELSE CommentCopy(Head(comments)) \o ConcatCopy(Tail(comments))

\* the records gathered before the first comment that raises
RECURSIVE PartialCopy(_, _)
PartialCopy(comments, patterns) ==
    IF comments = <<>> THEN <<>>
    ELSE IF RaisesCopy(Head(comments), patterns) THEN <<>>
    ELSE CommentCopy(Head(comments)) \o PartialCopy(Tail(comments), patterns)

process_comment_batch_copy_partial(comments, patterns) ==
    PartialCopy(comments, patterns)

\* copy process_comment_batch: any exception makes the whole batch return []
process_comment_batch_copy(comments, patterns) ==
    IF \E i \in 1..Len(comments) : RaisesCopy(comments[i], patterns) THEN <<>>
    ELSE ConcatCopy(comments)

process_comment_batch(v, patterns, comments) ==
    IF v = "copy" THEN process_comment_batch_copy(comments, patterns)
    ELSE process_comment_batch_src(comments)

\* the collector's filter on a pulled comment
\* copy line 137 / src lines 127-130
Accepted(c) == c.hasText /\ c.hasAuthor


\* ------------------------------------------------------------------ state
VARIABLES
    variant,        \* "copy" or "src": the file whose code runs
    patterns,       \* copy: "default" (Config.__init__) or "configured"
    max_workers,    \* size of the ThreadPoolExecutor
    batch_size,     \* comments per batch
    pc,             \* position of the driving loop
    pulled,         \* comments yielded by the source so far
    batch,          \* the batch buffer
    count,          \* comments accepted
    batch_num,      \* batches submitted
    all_donations,  \* the accumulated donation list
    futures,        \* the loop's list of futures (batch numbers)
    awaiting,       \* futures the running as_completed has yet to yield
    waited,         \* seconds since the running as_completed started
    exitKind,       \* how the with-block is being left
    outcome,        \* how get_video_comments ended
    ret,            \* the value of the return statement
    fut,            \* the executor's futures, by batch number
    accepted,       \* history: the accepted comments, in order
    merged,         \* history: batch numbers in the order they were merged
    abandoned,      \* history: batches outstanding when a timeout expired
    interrupted,    \* history: SIGINT was handled
    sourceFailed,   \* history: the comment source raised
    timedOut,       \* history: "none", "batch" or "final"
    exhausted,      \* history: the stream ended
    skipped,        \* history: batches whose result() raised TimeoutError
    fnPc,           \* function-level specifications: position
    fnComments,     \* the batch handed to process_comment_batch
    fnResult,       \* what process_comment_batch returned
    response,       \* what the exchange-rate source answers
    rates,          \* the rate table get_exchange_rates returned
    recs,           \* the donation list handed to the aggregation
    video_url,      \* src: whether the module defines VIDEO_URL
    report          \* what the aggregation reports

\* the variables of the function-level specifications
fnVars == <<fnPc, fnComments, fnResult, response, rates, recs, video_url, report>>

\* the configuration, and the variables get_video_comments never touches
cfgVars == <<variant, patterns, max_workers, batch_size, fnVars>>

loopVars == <<pc, pulled, batch, count, batch_num, all_donations, futures,
              awaiting, waited, exitKind, outcome, ret>>

histVars == <<accepted, merged, abandoned, interrupted, sourceFailed,
              timedOut, exhausted, skipped>>

vars == <<cfgVars, loopVars, fut, histVars>>

BatchIds == 1..Len(fut)

SeqToSet(s) == {s[i] : i \in 1..Len(s)}

RemoveFrom(s, x) == SelectSeq(s, LAMBDA y : y # x)

Running == {b \in BatchIds : fut[b].state = "running"}

Pending == {b \in BatchIds : fut[b].state = "pending"}

\* executor.submit: a new future, queued
NewFuture(comments, final) ==
    [state |-> "pending", comments |-> comments, final |-> final,
     hangs |-> FALSE, elapsed |-> 0, result |-> <<>>]

\* copy line 146 / src line 139: len(batch) >= batch_size
BatchFull_gt(b, size) == Len(b) > size

BatchFull(b, size) == Len(b) >= size

DoneOf_none(fs) == <<>>

\* copy line 158: done = futures[:-1]
DoneOf(fs) == SubSeq(fs, 1, Len(fs) - 1)

\* copy lines 158, 167: futures = not_done = futures[-1:]
NotDone_keepAll(fs) == fs

NotDone(fs) == SubSeq(fs, Len(fs), Len(fs))

\* the futures as_completed is given after a submit while streaming:
\* copy line 159 as_completed(done, ...), src line 145 as_completed(futures)
Awaited(v, fs) == IF v = "copy" THEN SeqToSet(DoneOf(fs)) ELSE SeqToSet(fs)

\* copy lines 174-175: the final drain always runs; src lines 159-163: only
\* inside `if batch:`
FinalDrains(v, b) == v = "copy" \/ b # <<>>

\* the timeout of the running as_completed (copy lines 159 and 175)
TimeoutOf(p) == IF p = "drain" THEN batch_timeout ELSE final_timeout

\* ThreadPoolExecutor(max_workers=...): a queued work item starts only when
\* fewer than max_workers threads are busy
CanStart_noCeiling(nrunning, max) == TRUE

CanStart(nrunning, max) == nrunning < max

\* Future.cancel() on each future of fs: only a pending future is cancelled
CancelAll(f, fs) ==
    [b \in 1..Len(f) |->
        IF b \in fs /\ f[b].state = "pending"
        THEN [f[b] EXCEPT !.state = "cancelled"] ELSE f[b]]

\* src lines 175-176, 182-183, 188-190: the futures are cancelled on every
\* way out; copy cancels nothing
CancelOnExit(v, f, fs) == IF v = "src" THEN CancelAll(f, SeqToSet(fs)) ELSE f

\* the file that runs and, for copy, its currency patterns
ConfigInit ==
    /\ variant \in {"copy", "src"}
    /\ patterns \in (IF variant = "copy" THEN {"default", "configured"}
                                        ELSE {"module"})

\* the function-level variables while get_video_comments is what runs
FnIdle ==
    /\ fnPc = "idle"
    /\ fnComments = <<>>
    /\ fnResult = <<>>
    /\ response = "none"
    /\ rates = <<>>
    /\ recs = <<>>
    /\ video_url = "defined"
    /\ report = <<>>

\* copy lines 126-133 / src lines 114-122: the locals of get_video_comments
LoopInit ==
    /\ pc = "pull"
    /\ pulled = 0
    /\ batch = <<>>
    /\ count = 0
    /\ batch_num = 0
    /\ all_donations = <<>>
    /\ futures = <<>>
    /\ awaiting = {}
    /\ waited = 0
    /\ exitKind = "none"
    /\ outcome = "none"
    /\ ret = <<>>
    /\ fut = <<>>
    /\ accepted = <<>>
    /\ merged = <<>>
    /\ abandoned = {}
    /\ interrupted = FALSE
    /\ sourceFailed = FALSE
    /\ timedOut = "none"
    /\ exhausted = FALSE
    /\ skipped = {}

Init ==
    /\ ConfigInit
    /\ max_workers \in (IF variant = "copy" THEN 1..MaxWorkers
                                           ELSE {SrcMaxWorkers})
    /\ batch_size \in 1..MaxBatchSize
    /\ LoopInit
    /\ FnIdle

\* ------------------------------------------------------- the driving loop
\* copy lines 136-158 / src lines 126-145: the source yields comment c
Pull(c) ==
    /\ pc = "pull"
    /\ pulled < MaxStream
    /\ pulled' = pulled + 1
    /\ IF Accepted(c)
       THEN /\ count' = count + 1
            /\ accepted' = Append(accepted, c)
            /\ IF BatchFull(Append(batch, c), batch_size)
               THEN /\ batch_num' = batch_num + 1
                    /\ fut' = Append(fut, NewFuture(Append(batch, c), FALSE))
                    /\ batch' = <<>>
                    /\ futures' = Append(futures, batch_num + 1)
                    /\ awaiting' = Awaited(variant, Append(futures, batch_num + 1))
                    /\ waited' = 0
                    /\ pc' = "drain"
               ELSE /\ batch' = Append(batch, c)
                    /\ UNCHANGED <<batch_num, fut, futures, awaiting, waited, pc>>
       ELSE UNCHANGED <<count, accepted, batch, batch_num, fut, futures,
                        awaiting, waited, pc>>
    /\ UNCHANGED <<cfgVars, all_donations, exitKind, outcome, ret, merged,
                   abandoned, interrupted, sourceFailed, timedOut, exhausted,
                   skipped>>

as_completed_yields_any(f) == TRUE

\* as_completed yields a future once it has completed
as_completed_yields(f) == f.state = "finished"

\* future.result(timeout=...): the value of a completed future at once,
\* CancelledError for a cancelled one; a future that is not done is waited
\* for and, not completing within the timeout, raises TimeoutError
future_result(f) ==
    CASE f.state = "finished" -> "value"
      [] f.state = "cancelled" -> "CancelledError"
      [] OTHER -> "TimeoutError"

\* copy lines 159-166, 175-181 / src lines 145-156, 163-170: as_completed
\* yields the future b and the loop body calls its result(): a value is
\* merged, TimeoutError is the "timed out, skipping" branch, any other
\* exception is logged
Merge(b) ==
    /\ pc \in {"drain", "final"}
    /\ b \in awaiting
    /\ as_completed_yields(fut[b])
    /\ LET res == future_result(fut[b])
       IN /\ all_donations' = IF res = "value"
                              THEN all_donations \o fut[b].result
                              ELSE all_donations
          /\ merged' = IF res = "value" THEN Append(merged, b) ELSE merged
          /\ skipped' = IF res = "TimeoutError" THEN skipped \cup {b}
                                                ELSE skipped
    /\ awaiting' = awaiting \ {b}
    /\ futures' = IF variant = "src" /\ pc = "drain"
                  THEN RemoveFrom(futures, b) ELSE futures
    /\ UNCHANGED <<cfgVars, pc, pulled, batch, count, batch_num, waited,
                   exitKind, outcome, ret, fut, accepted, abandoned,
                   interrupted, sourceFailed, timedOut, exhausted>>

\* copy line 167 / src line 157: the drain after a submit is over
DrainDone ==
    /\ pc = "drain"
    /\ awaiting = {}
    /\ futures' = IF variant = "copy" THEN NotDone(futures) ELSE futures
    /\ pc' = "pull"
    /\ UNCHANGED <<cfgVars, pulled, batch, count, batch_num, all_donations,
                   awaiting, waited, exitKind, outcome, ret, fut, histVars>>

\* copy lines 159, 175: as_completed raises TimeoutError from the for
\* statement, outside the inner try; lines 189-191 catch it and return
Timeout ==
    /\ variant = "copy"
    /\ pc \in {"drain", "final"}
    /\ awaiting # {}
    /\ waited >= TimeoutOf(pc)
    /\ timedOut' = IF pc = "drain" THEN "batch" ELSE "final"
    /\ abandoned' = abandoned \cup awaiting \cup (SeqToSet(futures) \ SeqToSet(merged))
    /\ ret' = all_donations
    /\ exitKind' = "return"
    /\ pc' = "exit"
    /\ UNCHANGED <<cfgVars, pulled, batch, count, batch_num, all_donations,
                   futures, awaiting, waited, outcome, fut, accepted, merged,
                   interrupted, sourceFailed, exhausted, skipped>>

\* copy lines 169-175 / src lines 158-163: the stream is exhausted
EndOfStream ==
    /\ pc = "pull"
    /\ exhausted' = TRUE
    /\ IF batch # <<>>
       THEN /\ batch_num' = batch_num + 1
            /\ fut' = Append(fut, NewFuture(batch, TRUE))
            /\ futures' = Append(futures, batch_num + 1)
       ELSE UNCHANGED <<batch_num, fut, futures>>
    /\ IF FinalDrains(variant, batch)
       THEN /\ pc' = "final"
            /\ awaiting' = SeqToSet(futures')
            /\ waited' = 0
            /\ UNCHANGED exitKind
       ELSE /\ pc' = "exit"
            /\ exitKind' = "normal"
            /\ UNCHANGED <<awaiting, waited>>
    /\ UNCHANGED <<cfgVars, pulled, batch, count, all_donations, outcome, ret,
                   accepted, merged, abandoned, interrupted, sourceFailed,
                   timedOut, skipped>>

\* the final drain is over: the try block ends (src: finally cancels the
\* futures that are not done) and the with-block is left
FinalDone ==
    /\ pc = "final"
    /\ awaiting = {}
    /\ fut' = CancelOnExit(variant, fut, futures)
    /\ pc' = "exit"
    /\ exitKind' = "normal"
    /\ UNCHANGED <<cfgVars, pulled, batch, count, batch_num, all_donations,
                   futures, awaiting, waited, outcome, ret, histVars>>

SourceFail_raises ==
    /\ pc = "pull"
    /\ sourceFailed' = TRUE
    /\ fut' = CancelOnExit(variant, fut, futures)
    /\ exitKind' = "Exception"
    /\ pc' = "exit"
    /\ UNCHANGED <<cfgVars, pulled, batch, count, batch_num, all_donations,
                   futures, awaiting, waited, outcome, ret, accepted, merged,
                   abandoned, interrupted, timedOut, exhausted, skipped>>

\* copy lines 189-191 / src lines 180-184: the comment source raises
SourceFail ==
    /\ pc = "pull"
    /\ sourceFailed' = TRUE
    /\ fut' = CancelOnExit(variant, fut, futures)
    /\ ret' = all_donations
    /\ exitKind' = "return"
    /\ pc' = "exit"
    /\ UNCHANGED <<cfgVars, pulled, batch, count, batch_num, all_donations,
                   futures, awaiting, waited, outcome, accepted, merged,
                   abandoned, interrupted, timedOut, exhausted, skipped>>

\* copy lines 56, 63-66 / src lines 30-34: SIGINT runs the installed handler,
\* which calls sys.exit(0): SystemExit is raised in the driving loop.  It is
\* neither KeyboardInterrupt nor an Exception, so no except clause of
\* get_video_comments catches it; src's finally cancels the pending futures.
Interrupt ==
    /\ pc \in {"pull", "drain", "final"}
    /\ interrupted' = TRUE
    /\ fut' = CancelOnExit(variant, fut, futures)
    /\ exitKind' = "SystemExit"
    /\ pc' = "exit"
    /\ UNCHANGED <<cfgVars, pulled, batch, count, batch_num, all_donations,
                   futures, awaiting, waited, outcome, ret, accepted, merged,
                   abandoned, sourceFailed, timedOut, exhausted, skipped>>

\* every work item of the executor has run to its end or was cancelled
ExitReady == \A b \in BatchIds : fut[b].state \in {"finished", "cancelled"}

\* copy line 132 / src line 121: ThreadPoolExecutor.__exit__ is
\* shutdown(wait=True): the with-block is left only when every queued work
\* item has run to its end.  Then the pending return or exception takes
\* effect (copy lines 193-197 / src lines 192-200 on the normal path).
ExitDone ==
    /\ pc = "exit"
    /\ ExitReady
    /\ pc' = "done"
    /\ outcome' = IF exitKind \in {"normal", "return"} THEN "returned"
                                                      ELSE exitKind
    /\ ret' = IF exitKind = "normal"
              THEN (IF variant = "src" /\ count = 0 THEN <<>> ELSE all_donations)
              ELSE ret
    /\ UNCHANGED <<cfgVars, pulled, batch, count, batch_num, all_donations,
                   futures, awaiting, waited, exitKind, fut, histVars>>

\* ------------------------------------------------------ the worker pool
\* a worker thread takes the oldest queued work item; the batch may be one
\* that never completes
Start(b) ==
    /\ b \in Pending
    /\ \A o \in Pending : b <= o
    /\ CanStart(Cardinality(Running), max_workers)
    /\ \E h \in BOOLEAN :
         fut' = [fut EXCEPT ![b].state = "running", ![b].hangs = h]
    /\ UNCHANGED <<cfgVars, loopVars, histVars>>

\* the worker returns from process_comment_batch: the future holds its result
Finish_writesShared(b) ==
    /\ b \in Running
    /\ ~fut[b].hangs
    /\ fut' = [fut EXCEPT ![b].state = "finished",
                          ![b].result = process_comment_batch(
                                            variant, patterns, fut[b].comments)]
    /\ all_donations' = all_donations \o fut'[b].result
    /\ UNCHANGED <<cfgVars, pc, pulled, batch, count, batch_num, futures,
                   awaiting, waited, exitKind, outcome, ret, histVars>>

Finish(b) ==
    /\ b \in Running
    /\ ~fut[b].hangs
    /\ fut' = [fut EXCEPT ![b].state = "finished",
                          ![b].result = process_comment_batch(
                                            variant, patterns, fut[b].comments)]
    /\ UNCHANGED <<cfgVars, loopVars, histVars>>

\* ------------------------------------------------------------------ time
\* the wait of as_completed ends as soon as a future it waits for completes
\* or its timeout expires: time does not pass over either
Urgent ==
    /\ pc \in {"drain", "final"}
    /\ \/ \E b \in awaiting : fut[b].state = "finished"
       \/ variant = "copy" /\ awaiting # {} /\ waited >= TimeoutOf(pc)

Tick ==
    /\ pc # "done"
    /\ ~Urgent
    /\ fut' = [b \in BatchIds |->
                 IF fut[b].state = "running"
                 THEN [fut[b] EXCEPT !.elapsed = Min(@ + TickLen, ElapsedCap)]
                 ELSE fut[b]]
    /\ waited' = IF variant = "copy" /\ pc \in {"drain", "final"} /\ awaiting # {}
                 THEN Min(waited + TickLen, final_timeout) ELSE waited
    /\ (fut' # fut \/ waited' # waited)
    /\ UNCHANGED <<cfgVars, pc, pulled, batch, count, batch_num, all_donations,
                   futures, awaiting, exitKind, outcome, ret, histVars>>

Driver ==
    \/ \E c \in StreamComments : Pull(c)
    \/ \E b \in BatchIds : Merge(b)
    \/ DrainDone
    \/ Timeout
    \/ EndOfStream
    \/ FinalDone
    \/ SourceFail
    \/ ExitDone

Workers ==
    \/ \E b \in BatchIds : Start(b)
    \/ \E b \in BatchIds : Finish(b)

Next == Driver \/ Workers \/ Interrupt \/ Tick

Spec == Init /\ [][Next]_vars

\* the driving loop and the worker threads are scheduled fairly and time
\* passes; a hanging batch never finishes, SIGINT may never arrive
FairSpec == Spec /\ WF_vars(Driver) /\ WF_vars(Workers) /\ WF_vars(Tick)


\* ---------------------------------------------------------------- claims
\* what process_comment_batch returns for batch b
ResultOf(b) == process_comment_batch(variant, patterns, fut[b].comments)

\* the results of the batches ids, concatenated in that order
RECURSIVE ConcatResults(_)
ConcatResults(ids) ==
    IF ids = <<>> THEN <<>>
    ELSE ResultOf(Head(ids)) \o ConcatResults(Tail(ids))

\* the comments of the submitted batches 1..n, in submission order
RECURSIVE SubmittedComments(_)
SubmittedComments(n) ==
    IF n = 0 THEN <<>> ELSE SubmittedComments(n - 1) \o fut[n].comments

RECURSIVE SumSizes(_)
SumSizes(n) == IF n = 0 THEN 0 ELSE SumSizes(n - 1) + Len(fut[n].comments)

NoDup(s) == \A i, j \in 1..Len(s) : s[i] = s[j] => i = j

BagOfSeq(s) ==
    [x \in SeqToSet(s) |-> Cardinality({i \in 1..Len(s) : s[i] = x})]

\* C1: whenever SIGINT arrived while get_video_comments was collecting, the
\* function returns to its caller a list that is exactly the concatenation
\* of the results of the batches merged up to that point.
C1_InterruptReturnsMerged ==
    (interrupted /\ pc = "done")
        => (outcome = "returned" /\ ret = ConcatResults(merged))

\* C2: a batch whose processing took longer than processing_timeout is not
\* part of the merged donation list.
C2_SlowBatchExcluded ==
    \A b \in SeqToSet(merged) : fut[b].elapsed <= processing_timeout

\* C3: after batch_timeout expired during STREAMING the run goes on: the
\* collector leaves the loop only once the stream is exhausted.
C3_BatchTimeoutKeepsStreaming ==
    (timedOut = "batch" /\ pc \in {"exit", "done"}) => exhausted

\* C4: for every finite stream get_video_comments eventually returns, even
\* if a submitted batch never completes (unless the run is cut short by
\* SIGINT or by a failure of the comment source).
C4_EventuallyReturns == <>(pc = "done" \/ interrupted \/ sourceFailed)

\* C5: the result of every submitted batch is appended to the accumulated
\* list at most once (the list is exactly the results of the merged batches,
\* each batch merged once), and a batch abandoned at a timeout is never
\* merged, also when its worker finishes later.
C5_AtMostOnce ==
    /\ NoDup(merged)
    /\ SeqToSet(merged) \subseteq BatchIds
    /\ all_donations = ConcatResults(merged)
    /\ abandoned \cap SeqToSet(merged) = {}

\* a batch was merged, another was abandoned at a timeout and its worker
\* finished afterwards, and the function has returned
C5_Witness ==
    /\ pc = "done"
    /\ merged # <<>>
    /\ \E b \in abandoned : fut[b].state = "finished" /\ ResultOf(b) # <<>>

\* C6: with no timeout, no interrupt and no source failure, the returned
\* list is, as a multiset, what process_comment_batch returns for the whole
\* sequence of accepted comments.
C6_NoLossNormalPath ==
    (/\ pc = "done"
     /\ outcome = "returned"
     /\ timedOut = "none"
     /\ ~interrupted
     /\ ~sourceFailed)
        => BagOfSeq(ret)
             = BagOfSeq(process_comment_batch(variant, patterns, accepted))

\* C7: a batch submitted while streaming holds exactly batch_size comments
\* and leaves an empty buffer; the final batch holds 1..batch_size-1
\* comments; the accepted comments are exactly the submitted batches followed
\* by the buffer, and once the stream is exhausted the count is the sum of
\* the sizes of the submitted batches.
C7_BatchFormation ==
    /\ \A b \in BatchIds :
         /\ ~fut[b].final => Len(fut[b].comments) = batch_size
         /\ fut[b].final => /\ 1 <= Len(fut[b].comments)
                            /\ Len(fut[b].comments) <= batch_size - 1
    /\ pc = "drain" => batch = <<>>
    /\ batch_num = Len(fut)
    /\ count = Len(accepted)
    /\ IF exhausted
       THEN /\ SubmittedComments(batch_num) = accepted
            /\ count = SumSizes(batch_num)
       ELSE SubmittedComments(batch_num) \o batch = accepted

\* the stream ended after a full batch of more than one comment and a
\* final partial batch
C7_Witness ==
    /\ exhausted
    /\ \E b \in BatchIds : ~fut[b].final /\ Len(fut[b].comments) > 1
    /\ \E b \in BatchIds : fut[b].final

\* C8: once the interrupt is handled, no queued batch is left to run and
\* the function does not wait for running batches before it returns.
C8_InterruptDoesNotWait ==
    interrupted => (Pending = {} /\ (pc = "exit" => ExitReady))

\* C9 as stated: the donation list, the comment counter and the batch
\* counter change only in a step that merges the result of a completed batch.
C9_OnlyWhenMerging ==
    [][(\/ all_donations' # all_donations
        \/ count' # count
        \/ batch_num' # batch_num) => \E b \in BatchIds : Merge(b)]_vars

\* C9 amended: the donation list changes only when the driving loop merges
\* the result of a completed batch; the comment counter changes only when
\* the loop accepts a pulled comment, the batch counter only when the loop
\* submits a batch; no worker step changes any of the three.
C9_SingleWriter ==
    [][/\ all_donations' # all_donations => \E b \in BatchIds : Merge(b)
       /\ count' # count => \E c \in StreamComments : Pull(c)
       /\ batch_num' # batch_num
            => ((\E c \in StreamComments : Pull(c)) \/ EndOfStream)
       /\ Workers => UNCHANGED <<all_donations, count, batch_num>>]_vars

\* a worker has produced a non-empty result and the loop has merged it
C9_Witness ==
    /\ count > 0
    /\ batch_num > 0
    /\ \E b \in SeqToSet(merged) : fut[b].result # <<>>
    /\ all_donations # <<>>

\* C10: at most max_workers batches execute process_comment_batch at the
\* same time.
C10_WorkerCeiling == Cardinality(Running) <= max_workers

\* every worker is busy, a further batch is queued, and the driving loop
\* has gone on past the submit
C10_Witness ==
    /\ Cardinality(Running) = max_workers
    /\ Pending # {}
    /\ pc = "drain"


\* ------------------------------------------- process_comment_batch alone
\* longest batch handed to process_comment_batch
MaxBatchLen == 3

\* the sequences over S of length at most n
SeqsUpTo(S, n) == UNION {[1..k -> S] : k \in 0..n}

\* a comment without text key, one whose text is empty, one whose text is
\* longer than 500 characters and mentions "$5"
cNoText == Comment(FALSE, TRUE, Str(0, <<>>), "dave")

cEmptyText == Comment(TRUE, TRUE, Str(0, <<>>), "erin")

cLongText == Comment(TRUE, TRUE, Str(SpamLen + 1, <<Tok("$", 5)>>), "frank")

\* the comments a batch may hold
BatchComments ==
    {cUsd, cInr, cNoAuthor, cBadText, cNoText, cEmptyText, cLongText}

\* get_video_comments does not run: its variables keep their first values
collVars == <<variant, patterns, max_workers, batch_size, loopVars, fut,
              histVars>>

CollIdle ==
    /\ ConfigInit
    /\ max_workers = SrcMaxWorkers
    /\ batch_size = 1
    /\ LoopInit

InitBatch ==
    /\ CollIdle
    /\ fnPc = "input"
    /\ fnComments \in SeqsUpTo(BatchComments, MaxBatchLen)
    /\ fnResult = <<>>
    /\ response = "none"
    /\ rates = <<>>
    /\ recs = <<>>
    /\ video_url = "defined"
    /\ report = <<>>

\* copy lines 88-119 / src lines 73-107: one call of process_comment_batch
CallBatch ==
    /\ fnPc = "input"
    /\ fnPc' = "called"
    /\ fnResult' = process_comment_batch(variant, patterns, fnComments)
    /\ UNCHANGED <<collVars, fnComments, response, rates, recs, video_url, report>>

NextBatch == CallBatch

SpecBatch == InitBatch /\ [][NextBatch]_vars

\* the comment lacks text or author, or its text is empty or too long
Invalid(c) ==
    \/ ~c.hasText
    \/ ~c.hasAuthor
    \/ (c.text.kind = "str" /\ (c.text.len = 0 \/ c.text.len > SpamLen))

\* the records the currency rules of the running file find in the text of
\* comment c (for copy: the rules of a configuration whose patterns compile)
RecordsOf(v, c) ==
    IF v = "copy" THEN RulesCopy(ConfiguredPatterns, c.text.toks, c.author)
    ELSE RulesSrc(CURRENCY_PATTERNS, c.text.toks, c.author)

\* comment by comment: nothing for an invalid comment or one whose text is
\* of an unexpected type, its records for every other comment
RECURSIVE SkipInvalid(_, _)
SkipInvalid(v, comments) ==
    IF comments = <<>> THEN <<>>
    ELSE (IF Invalid(Head(comments)) \/ Head(comments).text.kind # "str"
          THEN <<>> ELSE RecordsOf(v, Head(comments)))
           \o SkipInvalid(v, Tail(comments))

WellTyped(comments) ==
    \A i \in 1..Len(comments) : comments[i].text.kind = "str"

\* C11: for every batch (of comments whose fields have the expected types)
\* a comment without text or author, with empty text or with text longer
\* than 500 characters yields no record, and every other comment of the
\* batch still yields its records.
C11_SkipInvalidComments ==
    (fnPc = "called" /\ WellTyped(fnComments))
        => fnResult = SkipInvalid(variant, fnComments)

\* C12: when processing one comment of a batch fails with an unexpected
\* error (its text is not a string), only that comment is skipped: the
\* records of the comments before and after it are still returned.
C12_CommentFailureIsolated ==
    (fnPc = "called" /\ ~WellTyped(fnComments))
        => fnResult = SkipInvalid(variant, fnComments)


\* processing batch b raises inside process_comment_batch (only the copy
\* file has code of a batch outside a per-comment try)
BatchRaises(b) ==
    /\ variant = "copy"
    /\ \E i \in 1..Len(fut[b].comments) : RaisesCopy(fut[b].comments[i], patterns)

\* nothing for a batch that raises, the records of its comments otherwise
GoodResult(b) ==
    IF BatchRaises(b) THEN <<>> ELSE SkipInvalid(variant, fut[b].comments)

RECURSIVE ConcatGood(_)
ConcatGood(ids) ==
    IF ids = <<>> THEN <<>> ELSE GoodResult(Head(ids)) \o ConcatGood(Tail(ids))

\* no timeout, no interrupt, no source failure, and the function returned
NormalReturn ==
    /\ pc = "done"
    /\ outcome = "returned"
    /\ timedOut = "none"
    /\ ~interrupted
    /\ ~sourceFailed

\* C13: a batch whose processing raises completes with the empty list
\* instead of an exception; in get_video_comments it contributes nothing,
\* the results of all other batches are merged and the run goes on to the
\* end of the stream.
C13_BatchFailureIsolated ==
    /\ \A b \in BatchIds :
         fut[b].state = "finished" => fut[b].result = GoodResult(b)
    /\ all_donations = ConcatGood(merged)
    /\ NormalReturn => (SeqToSet(merged) = BatchIds /\ ret = ConcatGood(merged))

\* a batch raised between two batches that yielded records, and the run
\* returned the records of both
C13_Witness ==
    /\ NormalReturn
    /\ Len(ret) = 2
    /\ \E b \in BatchIds :
         /\ BatchRaises(b)
         /\ b - 1 \in BatchIds /\ fut[b - 1].result # <<>>
         /\ b + 1 \in BatchIds /\ fut[b + 1].result # <<>>

\* C14: when the comment source fails, at the first pull or at a later one,
\* get_video_comments ends by returning (it does not raise); it returns the
\* donations merged so far, the empty list when the first pull failed.
C14_SourceFailureReturns ==
    (sourceFailed /\ pc = "done")
        => /\ outcome = "returned"
           /\ ret = all_donations
           /\ pulled = 0 => ret = <<>>

\* the source failed after a batch was merged, and the function returned
\* that batch's records
C14_Witness ==
    /\ sourceFailed
    /\ pc = "done"
    /\ pulled > 0
    /\ ret # <<>>


\* ------------------------------------------- one comment, many amounts
\* longest text, in currency tokens
MaxToks == 2

\* the amounts around every threshold of the filter: zero, a small amount,
\* the MAX_AMOUNTS ceilings, the year band and the rule maxima
MatchAmounts == {0, 5, 1001, YearLo, YearHi, YearHi + 1, 10000, 10001, 100001}

MatchSyms == {"$", "rupee", "euro", "euro_suffix"}

MatchToks == {Tok(s, a) : s \in MatchSyms, a \in MatchAmounts}

\* process_comment_batch on one well-formed comment of alice
InitMatch ==
    /\ CollIdle
    /\ fnPc = "input"
    /\ \E toks \in SeqsUpTo(MatchToks, MaxToks) :
         fnComments = << Comment(TRUE, TRUE, Str(Len(toks) + 1, toks), "alice") >>
    /\ fnResult = <<>>
    /\ response = "none"
    /\ rates = <<>>
    /\ recs = <<>>
    /\ video_url = "defined"
    /\ report = <<>>

SpecMatch == InitMatch /\ [][NextBatch]_vars

\* the currency rules the variant applies
RulesOf(v) == IF v = "copy" THEN ConfiguredPatterns ELSE CURRENCY_PATTERNS

InYearBand(a) == YearLo <= a /\ a <= YearHi

\* C15: every record process_comment_batch emits was matched by a rule of
\* its symbol and currency with 0 < amount <= that rule's maximum, and its
\* amount is outside the year band [1900, 2100]; no record carries an
\* amount in the band or above the maximum of its rule.
C15_Plausible ==
    fnPc = "called" =>
        \A i \in 1..Len(fnResult) :
            LET r == fnResult[i]
                rules == RulesOf(variant)
            IN /\ ~InYearBand(r.amount)
               /\ \E k \in 1..Len(rules) :
                    /\ rules[k].sym = r.original
                    /\ rules[k].cur = r.currency
                    /\ 0 < r.amount
                    /\ r.amount <= rules[k].max

\* a text holding one amount in the year band and one that was emitted
C15_Witness ==
    /\ fnPc = "called"
    /\ Len(fnResult) = 1
    /\ Len(fnComments[1].text.toks) = 2
    /\ \E i \in 1..2 : InYearBand(fnComments[1].text.toks[i].amt)

\* C20: every token matched by a rule, with 0 < amount <= the maximum of
\* that rule and amount outside [1900, 2100], yields a donation record.
C20_RuleMaxIsTheBound ==
    fnPc = "called" =>
        \A k \in 1..Len(CURRENCY_PATTERNS) :
            \A i \in 1..Len(fnComments[1].text.toks) :
                LET rule == CURRENCY_PATTERNS[k]
                    t == fnComments[1].text.toks[i]
                IN (/\ t.sym = rule.sym
                    /\ 0 < t.amt
                    /\ t.amt <= rule.max
                    /\ ~InYearBand(t.amt))
                   => \E j \in 1..Len(fnResult) :
                        /\ fnResult[j].amount = t.amt
                        /\ fnResult[j].currency = rule.cur
                        /\ fnResult[j].original = t.sym


\* ------------------------------------------------- floating-point values
\* Amounts, rates and totals are Python floats.  binary64 rounds the exact
\* result of every operation to the nearest value with a 53-bit significand,
\* ties to even; the model rounds in the same way to a significand of
\* SigBits bits.  A float is <<m, e>>, standing for m * 2^e, with
\* 2^(SigBits-1) <= m < 2^SigBits, or <<0, 0>>.
SigBits == 7

RECURSIVE Pow2(_)
Pow2(n) == IF n = 0 THEN 1 ELSE 2 * Pow2(n - 1)

\* scale n/d * 2^e until the quotient has SigBits bits before the point
RECURSIVE Norm(_, _, _)
Norm(n, d, e) ==
    IF n >= Pow2(SigBits) * d THEN Norm(n, 2 * d, e + 1)
    ELSE IF n < Pow2(SigBits - 1) * d THEN Norm(2 * n, d, e - 1)
    ELSE <<n, d, e>>

\* the float nearest to n/d * 2^e (n >= 0, d > 0), ties to even
RoundQ(n, d, e) ==
    IF n = 0 THEN <<0, 0>>
    ELSE LET x == Norm(n, d, e)
             q == x[1] \div x[2]
             r == x[1] % x[2]
             up == 2 * r > x[2] \/ (2 * r = x[2] /\ q % 2 = 1)
             m == IF up THEN q + 1 ELSE q
         IN IF m = Pow2(SigBits) THEN <<Pow2(SigBits - 1), x[3] + 1>>
            ELSE <<m, x[3]>>

\* float("n/d") of a decimal literal
FloatOf(n, d) == RoundQ(n, d, 0)

Zero == FloatOf(0, 1)

One == FloatOf(1, 1)

\* x + y
FAdd(x, y) ==
    LET e == Min(x[2], y[2])
    IN RoundQ(x[1] * Pow2(x[2] - e) + y[1] * Pow2(y[2] - e), 1, e)

\* x / y, y # 0
FDiv(x, y) == RoundQ(x[1], y[1], x[2] - y[2])


\* ----------------------------------------------------- rates and report
\* what the rate service does with the request
Responses ==
    {"network_error", "silent", "malformed", "unsuccessful",
     "success", "success_no_eur"}

\* the outcomes the rate fetch is to survive
FailureResponses == {"network_error", "silent", "malformed", "unsuccessful"}

\* the 'rates' object of a successful response: units per USD
ApiRates ==
    [USD |-> One, INR |-> FloatOf(80, 1), EUR |-> FloatOf(1, 2)]

ApiRatesNoEur == [USD |-> One, INR |-> FloatOf(80, 1)]

\* src line 51
FallbackRates ==
    [USD |-> One, INR |-> FloatOf(83, 1), EUR |-> FloatOf(109, 100)]

\* copy: the empty dict
NoRates == <<>>

\* requests.get without timeout (copy line 71) never returns when the
\* service never answers; src line 40 passes timeout=10
Blocks(v, resp) == v = "copy" /\ resp = "silent"

get_exchange_rates_src(resp) ==
    IF resp = "success"
    THEN [USD |-> One, INR |-> ApiRates.INR, EUR |-> FDiv(One, ApiRates.EUR)]
    ELSE FallbackRates

get_exchange_rates_copy(resp) ==
    CASE resp = "success" -> ApiRates
      [] resp = "success_no_eur" -> ApiRatesNoEur
      [] OTHER -> NoRates

get_exchange_rates(v, resp) ==
    IF v = "copy" THEN get_exchange_rates_copy(resp)
    ELSE get_exchange_rates_src(resp)

\* longest donation list that is aggregated
MaxRecs == 3

ReportAmounts == {FloatOf(1, 1), FloatOf(128, 1)}

ReportRecs ==
    {Donation(a, r.cur, r.sym, "alice") :
        a \in ReportAmounts, r \in {CURRENCY_PATTERNS[k] : k \in 1..3}}

\* currency_totals after one more donation; a dict keeps insertion order
AddTotal(tot, rec) ==
    IF \E i \in 1..Len(tot) : tot[i].currency = rec.currency
    THEN [i \in 1..Len(tot) |->
            IF tot[i].currency = rec.currency
            THEN [tot[i] EXCEPT !.total = FAdd(@, rec.amount)]
            ELSE tot[i]]
    ELSE Append(tot, [currency |-> rec.currency,
                      total |-> FAdd(Zero, rec.amount)])

\* the grouping loop (copy 229-234, src 238-240)
RECURSIVE Group(_, _)
Group(donations, tot) ==
    IF donations = <<>> THEN tot
    ELSE Group(Tail(donations), AddTotal(tot, Head(donations)))

\* position of a currency code in lexicographic order
CodeRank(c) ==
    CASE c = "EUR" -> 1
      [] c = "INR" -> 2
      [] c = "USD" -> 3

RECURSIVE Insert(_, _)
Insert(x, sortedSeq) ==
    IF sortedSeq = <<>> THEN <<x>>
    ELSE IF CodeRank(x.currency) <= CodeRank(Head(sortedSeq).currency)
         THEN <<x>> \o sortedSeq
         ELSE <<Head(sortedSeq)>> \o Insert(x, Tail(sortedSeq))

\* sorted(currency_totals.items())
RECURSIVE SortByCode(_)
SortByCode(tot) ==
    IF tot = <<>> THEN <<>> ELSE Insert(Head(tot), SortByCode(Tail(tot)))

\* copy convert_to_usd
convert_to_usd(amount, currency, rateTable) ==
    IF currency = "USD" THEN amount
    ELSE IF currency \in DOMAIN rateTable THEN FDiv(amount, rateTable[currency])
    ELSE Zero

\* src line 257: total / rates.get(currency, 1.0)
ConvertSrc(amount, currency, rateTable) ==
    FDiv(amount, IF currency \in DOMAIN rateTable THEN rateTable[currency] ELSE One)

\* total_usd after the loop over the sorted totals
RECURSIVE TotalUsd(_, _, _, _)
TotalUsd(v, tot, rateTable, acc) ==
    IF tot = <<>> THEN acc
    ELSE LET usd == IF v = "copy"
                    THEN convert_to_usd(Head(tot).total, Head(tot).currency, rateTable)
                    ELSE ConvertSrc(Head(tot).total, Head(tot).currency, rateTable)
         IN TotalUsd(v, Tail(tot), rateTable, FAdd(acc, usd))

\* copy converts only under "if rates:"
Converts(v, rateTable) == v = "src" \/ DOMAIN rateTable # {}

\* what analyze_video (copy) / main (src) reports for a donation list:
\* the per-currency totals in printed order, the USD total if one is
\* printed, the number of donations found if it is printed
Analyze(v, rateTable, donations) ==
    IF donations = <<>>
    THEN [kind |-> "none", totals |-> <<>>, hasUsd |-> FALSE, total_usd |-> Zero,
          hasFound |-> FALSE, found |-> 0]
    ELSE LET tot == SortByCode(Group(donations, <<>>))
         IN [kind |-> "report",
             totals |-> tot,
             hasUsd |-> Converts(v, rateTable),
             total_usd |-> IF Converts(v, rateTable)
                           THEN TotalUsd(v, tot, rateTable, Zero) ELSE Zero,
             hasFound |-> v = "src",
             found |-> IF v = "src" THEN Len(donations) ELSE 0]

InitReport ==
    /\ CollIdle
    /\ fnPc = "input"
    /\ fnComments = <<>>
    /\ fnResult = <<>>
    /\ response \in Responses
    /\ rates = NoRates
    /\ recs \in SeqsUpTo(ReportRecs, MaxRecs)
    /\ video_url \in (IF variant = "src" THEN {"undefined", "defined"}
                                        ELSE {"defined"})
    /\ report = <<>>

\* rates = get_exchange_rates()
FetchRates ==
    /\ fnPc = "input"
    /\ response # "none"
    /\ IF Blocks(variant, response)
       THEN fnPc' = "blocked" /\ rates' = rates
       ELSE fnPc' = "rates" /\ rates' = get_exchange_rates(variant, response)
    /\ UNCHANGED <<collVars, fnComments, fnResult, response, recs, video_url, report>>

\* src line 225 reads the global VIDEO_URL, which the module never defines:
\* the NameError is caught at line 266 and main ends without a report
ErrorReport ==
    [kind |-> "error", totals |-> <<>>, hasUsd |-> FALSE, total_usd |-> Zero,
     hasFound |-> FALSE, found |-> 0]

Report(v, url, rateTable, donations) ==
    IF v = "src" /\ url = "undefined" THEN ErrorReport
    ELSE Analyze(v, rateTable, donations)

\* the rest of analyze_video / main once get_video_comments returned recs
Aggregate ==
    /\ fnPc = "rates"
    /\ report' = Report(variant, video_url, rates, recs)
    /\ fnPc' = "reported"
    /\ UNCHANGED <<collVars, fnComments, fnResult, response, rates, recs, video_url>>

NextReport == FetchRates \/ Aggregate

SpecReport == InitReport /\ [][NextReport]_vars


SameTable(t, u) ==
    /\ DOMAIN t = DOMAIN u
    /\ \A c \in DOMAIN t : t[c] = u[c]

\* C16: when the rate fetch fails (network error, no answer, malformed or
\* unsuccessful response) get_exchange_rates does not block and returns
\* the fallback table USD 1.0, INR 83.0, EUR 1.09.
C16_RateFallback ==
    (response \in FailureResponses /\ fnPc # "input")
        => /\ fnPc # "blocked"
           /\ SameTable(rates, FallbackRates)

\* the float sum of the amounts of the records of one currency, list order
RECURSIVE SumOf(_, _, _)
SumOf(donations, c, acc) ==
    IF donations = <<>> THEN acc
    ELSE SumOf(Tail(donations), c,
               IF Head(donations).currency = c
               THEN FAdd(acc, Head(donations).amount) ELSE acc)

CountOf(donations, c) ==
    Cardinality({i \in 1..Len(donations) : donations[i].currency = c})

CurrenciesOf(donations) == {donations[i].currency : i \in 1..Len(donations)}

\* C17: for a non-empty donation list the report has one entry per currency
\* present, each with the sum of the amounts and the count of the records
\* of that currency, and a number of donations found equal to the length
\* of the list.
C17_PerCurrencyTotals ==
    (fnPc = "reported" /\ recs # <<>>)
        => /\ {report.totals[i].currency : i \in 1..Len(report.totals)}
                = CurrenciesOf(recs)
           /\ \A i \in 1..Len(report.totals) :
                LET t == report.totals[i]
                IN /\ t.total = SumOf(recs, t.currency, Zero)
                   /\ "count" \in DOMAIN t
                   /\ t.count = CountOf(recs, t.currency)
           /\ report.hasFound
           /\ report.found = Len(recs)

\* the reference total of the claim: USD as-is, another currency divided
\* by its rate, a currency without rate 0, summed in reported order
RECURSIVE RefTotal(_, _, _)
RefTotal(tot, rateTable, acc) ==
    IF tot = <<>> THEN acc
    ELSE LET t == Head(tot)
             usd == IF t.currency = "USD" THEN t.total
                    ELSE IF t.currency \in DOMAIN rateTable
                         THEN FDiv(t.total, rateTable[t.currency])
                    ELSE Zero
         IN RefTotal(Tail(tot), rateTable, FAdd(acc, usd))

\* C18: for a non-empty donation list a reference-currency total is
\* reported and equals the sum of the converted per-currency totals: USD
\* as-is, any other currency divided by its rate, 0 for a currency that is
\* not in the rate table.
C18_ReferenceTotal ==
    (fnPc = "reported" /\ recs # <<>>)
        => /\ report.hasUsd
           /\ report.total_usd = RefTotal(report.totals, rates, Zero)

Permute(donations, p) == [i \in 1..Len(donations) |-> donations[p[i]]]

IsSortedByCode(tot) ==
    \A i \in 1..(Len(tot) - 1) :
        CodeRank(tot[i].currency) < CodeRank(tot[i + 1].currency)

\* C19: every permutation of the donation list gives, with the same rate
\* table, the same report: the same per-currency totals in lexicographic
\* order of currency code and the same reference-currency total.
C19_OrderIndependent ==
    fnPc = "reported"
        => /\ IsSortedByCode(report.totals)
           /\ \A p \in Permutations(1..Len(recs)) :
                Report(variant, video_url, rates, Permute(recs, p)) = report


\* the submitted batches that are neither merged nor abandoned
Outstanding == (BatchIds \ SeqToSet(merged)) \ abandoned

\* C21: whenever the driving loop is about to pull the next comment, the
\* only submitted batch that may still be neither merged nor abandoned is
\* the most recently submitted one; at most two batches are outstanding at
\* any time, whatever max_workers and the length of the stream.
C21_OutstandingBound ==
    /\ pc = "pull" => Outstanding \subseteq {batch_num}
    /\ Cardinality(Outstanding) <= 2

\* the loop pulls while the latest of several batches is still running, and
\* later two batches are outstanding at once
C21_Witness ==
    /\ pc = "pull"
    /\ batch_num >= 2
    /\ Outstanding = {batch_num}
    /\ fut[batch_num].state = "running"


\* C22: result() is only called on a future that as_completed yielded as
\* completed, so no batch ever takes the per-batch TimeoutError branch:
\* every batch the drain has yielded completed before and was merged, and
\* when the loop pulls, every batch it no longer waits for was merged.
C22_NoPerBatchTimeout ==
    /\ skipped = {}
    /\ \A b \in SeqToSet(merged) : fut[b].state = "finished"
    /\ pc = "pull" => (BatchIds \ SeqToSet(futures)) \subseteq SeqToSet(merged)

\* a batch that ran longer than the per-batch timeout was yielded by a
\* drain and merged
C22_Witness ==
    /\ pc = "pull"
    /\ \E b \in SeqToSet(merged) : fut[b].elapsed > processing_timeout
    /\ skipped = {}

====
